---- MODULE Spec2Model ----
(***************************************************************************)
(* Model of src/app.py: the Flask handler index() and the coroutines       *)
(* get_city_id, search_users_by_params and get_photos_from_albums.         *)
(*                                                                         *)
(* Embeddings are points of the integer plane in units of 0.1, so the      *)
(* Euclidean test  norm(a - b) < 0.6  is  Dist2(a, b) < 6 * 6.             *)
(* Remote answers (VK API, photo downloads, the face model) are inputs     *)
(* drawn from small sets when the call that receives them is made.         *)
(***************************************************************************)
EXTENDS Integers, Sequences, FiniteSets, TLC

VARIABLES pc, city, city_id, face_encodings, user_results, tasks, results,
          vk_results, page, renders, calls, listingCalls,
          t_pc, t_user, t_face, t_items, t_pos, t_vk, t_content, t_ret, t_log

hvars == <<pc, city, city_id, face_encodings, user_results, tasks, results,
           vk_results, page, renders, calls, listingCalls>>
tvars == <<t_pc, t_user, t_face, t_items, t_pos, t_vk, t_content, t_ret, t_log>>
vars == <<hvars, tvars>>

(* ------------------------------ bounds --------------------------------- *)
MaxFaces == 2
MaxPhotos == 3

(* --------------------------- program constants -------------------------- *)
ThresholdTenths == 6
ClosedProfileCode == 30

(* ------------------------------ the world ------------------------------- *)
\* Python's None, for an optional value held as a sequence of length <= 1
None == << >>
UserIds == {1, 2}
CityNames == {"", "Moscow"}
CityIds == {1}
\* API error codes other than the closed-profile one
OtherErrorCodes == {5}

\* the i-th face the detector finds in an uploaded image: 1.0 apart
FaceAt(i) == <<10 * (i - 1), 0>>

\* what one listed photo item is: a malformed item (no usable sizes/url),
\* bytes that do not decode, or an image with the embeddings of its faces
PhotoDB ==
  [p \in 1..6 |->
     CASE p = 1 -> [kind |-> "image", faces |-> << <<3, 5>> >>]
       [] p = 2 -> [kind |-> "image", faces |-> << <<0, 6>> >>]
       [] p = 3 -> [kind |-> "image", faces |-> << >>]
       [] p = 4 -> [kind |-> "image", faces |-> << <<1, 0>>, <<5, 0>> >>]
       [] p = 5 -> [kind |-> "corrupt", faces |-> << >>]
       [] p = 6 -> [kind |-> "malformed", faces |-> << >>]]
PhotoIds == DOMAIN PhotoDB

\* the album photos.getAll lists for a user when it answers with a response
UserAlbum(u) == IF u = 1 THEN <<1, 5, 4>> ELSE <<2, 3>>

\* an item of users.search: id, "first last", photo_200
UserRec(id) == [user_id |-> id, name |-> id, photo |-> 100 + id]

(* ------------------------- matching (lines 127-135) --------------------- *)
Dist2(a, b) == (a[1] - b[1]) * (a[1] - b[1]) + (a[2] - b[2]) * (a[2] - b[2])

\* faulty variant: distance <= 0.6
IsMatchLE(face_embedding, embedding) ==
  Dist2(face_embedding, embedding) <= ThresholdTenths * ThresholdTenths

IsMatch(face_embedding, embedding) ==
  Dist2(face_embedding, embedding) < ThresholdTenths * ThresholdTenths

MatchEntry(user, p) ==
  [name |-> user.name, profile_url |-> user.user_id, photo_url |-> p]

ErrorEntry(user, msg) ==
  [profile_url |-> user.user_id, name |-> user.name, error |-> msg,
   photo_url |-> user.photo]

\* faulty variant: the loop without its break
RECURSIVE CompareLoopNoBreak(_, _, _, _, _, _)
CompareLoopNoBreak(acc, user, face_embedding, p, embeddings, i) ==
  IF i > Len(embeddings) THEN acc
  ELSE CompareLoopNoBreak(
         IF IsMatch(face_embedding, embeddings[i])
           THEN Append(acc, MatchEntry(user, p)) ELSE acc,
         user, face_embedding, p, embeddings, i + 1)

\* for embedding in embeddings: if distance < 0.6: append; break
RECURSIVE CompareLoop(_, _, _, _, _, _)
CompareLoop(acc, user, face_embedding, p, embeddings, i) ==
  IF i > Len(embeddings) THEN acc
  ELSE IF IsMatch(face_embedding, embeddings[i])
       THEN Append(acc, MatchEntry(user, p))
       ELSE CompareLoop(acc, user, face_embedding, p, embeddings, i + 1)

\* lines 122-135 on downloaded bytes: decode, detect, embed, compare.
\* raised: an exception reached the except of line 136
ComparePhoto(acc, user, face_embedding, p, content) ==
  IF content.kind # "image" THEN [vk |-> acc, raised |-> TRUE]
  ELSE IF content.faces = << >> THEN [vk |-> acc, raised |-> FALSE]
  ELSE [vk |-> CompareLoop(acc, user, face_embedding, p, content.faces, 1),
        raised |-> FALSE]

(* ------------------- get_photos_from_albums (lines 96-146) -------------- *)
Exc == [kind |-> "exc", code |-> 0, items |-> << >>]
ApiError(c) == [kind |-> "error", code |-> c, items |-> << >>]
Response(items) == [kind |-> "response", code |-> 0, items |-> items]

\* the answers photos.getAll can give for a user: the request raises, the
\* profile is closed, another API error, the album, the album followed by a
\* malformed item
ListingResponses(uid) ==
  {Exc, ApiError(ClosedProfileCode),
   Response(UserAlbum(uid)), Response(Append(UserAlbum(uid), 6))}
  \cup {ApiError(c) : c \in OtherErrorCodes}

DictResult(e) == [type |-> "dict", val |-> << e >>]
ListResult(l) == [type |-> "list", val |-> l]
ExceptionResult == [type |-> "exception", val |-> << >>]
Pending == [type |-> "pending", val |-> << >>]

\* faulty variant: an exception while processing a photo ends the loop
RECURSIVE PhotoLoopStops(_, _, _, _, _)
PhotoLoopStops(acc, user, face_embedding, items, i) ==
  IF i > Len(items) THEN ListResult(acc)
  ELSE IF PhotoDB[items[i]].kind = "malformed" THEN ExceptionResult
  ELSE LET r == ComparePhoto(acc, user, face_embedding, items[i],
                             PhotoDB[items[i]])
       IN IF r.raised THEN ListResult(r.vk)
          ELSE PhotoLoopStops(r.vk, user, face_embedding, items, i + 1)

\* for item in data["response"]["items"] (lines 116-137); the url of a
\* malformed item is read outside the inner try, so it ends the coroutine
RECURSIVE PhotoLoop(_, _, _, _, _)
PhotoLoop(acc, user, face_embedding, items, i) ==
  IF i > Len(items) THEN ListResult(acc)
  ELSE IF PhotoDB[items[i]].kind = "malformed" THEN ExceptionResult
  ELSE PhotoLoop(ComparePhoto(acc, user, face_embedding, items[i],
                              PhotoDB[items[i]]).vk,
                 user, face_embedding, items, i + 1)

get_photos_from_albums(user, face_embedding, data) ==
  IF data.kind = "exc"
    THEN DictResult(ErrorEntry(user, "photos request failed"))
  ELSE IF data.kind = "response"
    THEN PhotoLoop(<< >>, user, face_embedding, data.items, 1)
  ELSE IF data.code = ClosedProfileCode
    THEN DictResult(ErrorEntry(user, "profile closed"))
  ELSE DictResult(ErrorEntry(user, "photos unavailable"))

(* ------------------------ get_city_id (lines 34-54) --------------------- *)
\* answers of database.getCities: the request raises, no item, one item
CityResponses == {[kind |-> "exc", id |-> 0], [kind |-> "empty", id |-> 0]}
                 \cup {[kind |-> "found", id |-> i] : i \in CityIds}

get_city_id(data) == IF data.kind = "found" THEN <<data.id>> ELSE None

\* "city": city_id if city_id else ''   (None and 0 are falsy; '' is << >>)
CityParam(cid) == IF cid = None \/ cid = <<0>> THEN << >> ELSE cid

(* ------------------ search_users_by_params (lines 57-93) ---------------- *)
\* answers of users.search: the request raises, an API error, a response
\* with an item lacking a field, a response with 0..2 users
SearchResponses ==
  {[kind |-> "exc", items |-> << >>], [kind |-> "error", items |-> << >>],
   [kind |-> "badresponse", items |-> << >>]}
  \cup {[kind |-> "response", items |-> s] :
          s \in {<< >>, <<1>>, <<2>>, <<1, 2>>}}

\* raised: an exception left the coroutine (lines 80-93 are outside its try)
search_users_by_params(data) ==
  IF data.kind = "exc" THEN [raised |-> FALSE, users |-> << >>]
  ELSE IF data.kind = "response"
    THEN [raised |-> FALSE,
          users |-> [i \in 1..Len(data.items) |-> UserRec(data.items[i])]]
  ELSE IF data.kind = "badresponse" THEN [raised |-> TRUE, users |-> << >>]
  ELSE [raised |-> FALSE, users |-> << >>]

(* ----------------------------- index (149-221) -------------------------- *)
NoPage == [error |-> "unrendered", vk_results |-> << >>]

Render(err, vk) ==
  /\ page' = [error |-> err, vk_results |-> vk]
  /\ renders' = renders + 1
  /\ pc' = "done"

\* faulty variant: one task per user
TasksPerUser(users, faces) ==
  [k \in 1..Len(users) |-> [user |-> users[k], face |-> faces[1]]]

\* faulty variant: faces outer, users inner
TasksFacesOuter(users, faces) ==
  [k \in 1..(Len(users) * Len(faces)) |->
     [user |-> users[((k - 1) % Len(users)) + 1],
      face |-> faces[((k - 1) \div Len(users)) + 1]]]

\* tasks = [... for user in user_results for face_encoding in face_encodings]
Tasks(users, faces) ==
  [k \in 1..(Len(users) * Len(faces)) |->
     [user |-> users[((k - 1) \div Len(faces)) + 1],
      face |-> faces[((k - 1) % Len(faces)) + 1]]]

\* faulty variant: the wait ends with the first finished task
GatherDoneAny(res) == \E t \in DOMAIN res : res[t] # Pending

\* asyncio.gather(*tasks, return_exceptions=True) returns when all are done
GatherDone(res) == \A t \in DOMAIN res : res[t] # Pending

\* faulty variant: only the lists are aggregated
RECURSIVE AggregateListsOnly(_, _, _)
AggregateListsOnly(acc, res, i) ==
  IF i > Len(res) THEN acc
  ELSE IF res[i].type = "list"
    THEN AggregateListsOnly(acc \o res[i].val, res, i + 1)
  ELSE AggregateListsOnly(acc, res, i + 1)

\* for result in results (lines 205-211)
RECURSIVE AggregateLoop(_, _, _)
AggregateLoop(acc, res, i) ==
  IF i > Len(res) THEN acc
  ELSE IF res[i].type = "dict" /\ "error" \in DOMAIN res[i].val[1]
    THEN AggregateLoop(Append(acc, res[i].val[1]), res, i + 1)
  ELSE IF res[i].type = "list"
    THEN AggregateLoop(acc \o res[i].val, res, i + 1)
  ELSE AggregateLoop(acc, res, i + 1)

HInit ==
  /\ pc = "idle"
  /\ city = ""
  /\ city_id = None
  /\ face_encodings = << >>
  /\ user_results = << >>
  /\ tasks = << >>
  /\ results = << >>
  /\ vk_results = << >>
  /\ page = NoPage
  /\ renders = 0
  /\ calls = << >>
  /\ listingCalls = [u \in UserIds |-> 0]

TOff ==
  /\ t_pc = "off"
  /\ t_user = UserRec(1)
  /\ t_face = FaceAt(1)
  /\ t_items = << >>
  /\ t_pos = 0
  /\ t_vk = << >>
  /\ t_content = None
  /\ t_ret = Pending
  /\ t_log = {}

Init == HInit /\ TOff

\* lines 152-174: the file part, its name, file.save, the form fields
Post ==
  /\ pc = "idle"
  /\ \E hasFile \in BOOLEAN, filename \in {"", "a.jpg"}, saveOk \in BOOLEAN,
        c \in CityNames :
       IF ~hasFile THEN Render("no file part", << >>) /\ UNCHANGED city
       ELSE IF filename = ""
         THEN Render("no file selected", << >>) /\ UNCHANGED city
       ELSE IF ~saveOk THEN Render("save failed", << >>) /\ UNCHANGED city
       ELSE /\ pc' = "detect"
            /\ city' = c
            /\ UNCHANGED <<page, renders>>
  /\ UNCHANGED <<city_id, face_encodings, user_results, tasks, results,
                 vk_results, calls, listingCalls, tvars>>

\* lines 176-188: Image.open, mtcnn, resnet on the uploaded file
Detect ==
  /\ pc = "detect"
  /\ \E n \in -1..MaxFaces :
       IF n = -1 THEN Render("image error", << >>) /\ UNCHANGED face_encodings
       ELSE IF n = 0 THEN Render("no faces", << >>) /\ UNCHANGED face_encodings
       ELSE /\ face_encodings' = [i \in 1..n |-> FaceAt(i)]
            /\ pc' = "search"
            /\ UNCHANGED <<page, renders>>
  /\ UNCHANGED <<city, city_id, user_results, tasks, results, vk_results,
                 calls, listingCalls, tvars>>

\* faulty variant: a city that is not found ends the request with an error
CityLookupStrict ==
  /\ pc = "search"
  /\ city # ""
  /\ \E data \in CityResponses :
       /\ city_id' = get_city_id(data)
       /\ calls' = Append(calls, [method |-> "database.getCities",
                                  q |-> city, found |-> data.kind = "found"])
       /\ IF data.kind = "found"
            THEN pc' = "users_search" /\ UNCHANGED <<page, renders>>
            ELSE Render("search error", << >>)
  /\ UNCHANGED <<city, face_encodings, user_results, tasks, results,
                 vk_results, listingCalls, tvars>>

\* search_users_by_params lines 58-60: the city lookup, only for a city name
CityLookup ==
  /\ pc = "search"
  /\ city # ""
  /\ \E data \in CityResponses :
       /\ city_id' = get_city_id(data)
       /\ calls' = Append(calls, [method |-> "database.getCities",
                                  q |-> city, found |-> data.kind = "found"])
  /\ pc' = "users_search"
  /\ UNCHANGED <<city, face_encodings, user_results, tasks, results,
                 vk_results, page, renders, listingCalls, tvars>>

\* faulty variant: an exception of the search leaves the handler
UsersSearchNoCatch ==
  /\ \/ pc = "search" /\ city = ""
     \/ pc = "users_search"
  /\ calls' = Append(calls, [method |-> "users.search",
                             city |-> CityParam(city_id)])
  /\ city_id' = None
  /\ \E data \in SearchResponses :
       LET r == search_users_by_params(data) IN
       IF r.raised
         THEN pc' = "crashed"
              /\ UNCHANGED <<user_results, tasks, results, page, renders>>
       ELSE IF r.users = << >>
         THEN Render("no users", << >>)
              /\ UNCHANGED <<user_results, tasks, results>>
       ELSE /\ user_results' = r.users
            /\ tasks' = Tasks(r.users, face_encodings)
            /\ results' = [t \in DOMAIN tasks' |-> Pending]
            /\ pc' = "gather"
            /\ UNCHANGED <<page, renders>>
  /\ UNCHANGED <<city, face_encodings, vk_results, listingCalls, tvars>>

\* search_users_by_params lines 62-93 and index lines 193-202, 215-217
UsersSearch ==
  /\ \/ pc = "search" /\ city = ""
     \/ pc = "users_search"
  /\ calls' = Append(calls, [method |-> "users.search",
                             city |-> CityParam(city_id)])
  /\ city_id' = None
  /\ \E data \in SearchResponses :
       LET r == search_users_by_params(data) IN
       IF r.raised
         THEN Render("search error", << >>)
              /\ UNCHANGED <<user_results, tasks, results>>
       ELSE IF r.users = << >>
         THEN Render("no users", << >>)
              /\ UNCHANGED <<user_results, tasks, results>>
       ELSE /\ user_results' = r.users
            /\ tasks' = Tasks(r.users, face_encodings)
            /\ results' = [t \in DOMAIN tasks' |-> Pending]
            /\ pc' = "gather"
            /\ UNCHANGED <<page, renders>>
  /\ UNCHANGED <<city, face_encodings, vk_results, listingCalls, tvars>>

\* one coroutine of the fan-out runs get_photos_from_albums to its end
TaskRun(t) ==
  /\ pc = "gather"
  /\ results[t] = Pending
  /\ \E data \in ListingResponses(tasks[t].user.user_id) :
       results' = [results EXCEPT ![t] =
                     get_photos_from_albums(tasks[t].user, tasks[t].face, data)]
  /\ listingCalls' = [listingCalls EXCEPT ![tasks[t].user.user_id] = @ + 1]
  /\ UNCHANGED <<pc, city, city_id, face_encodings, user_results, tasks,
                 vk_results, page, renders, calls, tvars>>

\* lines 204-219: gather returns, the results are aggregated and rendered
Aggregate ==
  /\ pc = "gather"
  /\ GatherDone(results)
  /\ vk_results' = AggregateLoop(<< >>, results, 1)
  /\ IF vk_results' = << >> THEN Render("no matches", << >>)
     ELSE Render("none", vk_results')
  /\ UNCHANGED <<city, city_id, face_encodings, user_results, tasks, results,
                 calls, listingCalls, tvars>>

Next ==
  \/ Post
  \/ Detect
  \/ CityLookup
  \/ UsersSearch
  \/ \E t \in DOMAIN tasks : TaskRun(t)
  \/ Aggregate

Spec == Init /\ [][Next]_vars

\* every remote call eventually returns or fails, and the event loop runs
\* every coroutine that is ready
FairSpec == Init /\ [][Next]_vars /\ WF_vars(Next)

(* --------- get_photos_from_albums, one coroutine step by step ----------- *)
\* every listing of at most MaxPhotos items
Albums == UNION {[1..n -> PhotoIds] : n \in 0..MaxPhotos}

HOff ==
  /\ pc = "off"
  /\ city = ""
  /\ city_id = None
  /\ face_encodings = << >>
  /\ user_results = << >>
  /\ tasks = << >>
  /\ results = << >>
  /\ vk_results = << >>
  /\ page = NoPage
  /\ renders = 0
  /\ calls = << >>
  /\ listingCalls = [u \in UserIds |-> 0]

TInit ==
  /\ HOff
  /\ t_pc = "start"
  /\ \E uid \in UserIds : t_user = UserRec(uid)
  /\ \E f \in 1..MaxFaces : t_face = FaceAt(f)
  /\ t_items = << >>
  /\ t_pos = 0
  /\ t_vk = << >>
  /\ t_content = None
  /\ t_ret = Pending
  /\ t_log = {}

\* lines 107-115 and 138-144: the photos.getAll request and its answer
T_Listing ==
  /\ t_pc = "start"
  /\ \E data \in {Exc, ApiError(ClosedProfileCode)}
                 \cup {ApiError(c) : c \in OtherErrorCodes}
                 \cup {Response(a) : a \in Albums} :
       IF data.kind = "response"
         THEN /\ t_items' = data.items
              /\ t_pos' = 1
              /\ t_pc' = "loop"
              /\ UNCHANGED t_ret
         ELSE /\ t_ret' = get_photos_from_albums(t_user, t_face, data)
              /\ t_pc' = "returned"
              /\ UNCHANGED <<t_items, t_pos>>
  /\ UNCHANGED <<hvars, t_user, t_face, t_vk, t_content, t_log>>

\* lines 116-117 and 146: the next item and its url, or the return
T_Item ==
  /\ t_pc = "loop"
  /\ IF t_pos > Len(t_items)
       THEN t_ret' = ListResult(t_vk) /\ t_pc' = "returned"
     ELSE IF PhotoDB[t_items[t_pos]].kind = "malformed"
       THEN t_ret' = ExceptionResult /\ t_pc' = "raised"
     ELSE t_pc' = "fetch" /\ UNCHANGED t_ret
  /\ UNCHANGED <<hvars, t_user, t_face, t_items, t_pos, t_vk, t_content, t_log>>

\* lines 120-121 and 136-137: the download, which may raise
T_Fetch ==
  /\ t_pc = "fetch"
  /\ \E ok \in BOOLEAN :
       IF ok
         THEN /\ t_content' = << PhotoDB[t_items[t_pos]] >>
              /\ t_pc' = "compare"
              /\ UNCHANGED <<t_pos, t_log>>
         ELSE /\ t_log' = t_log \cup {t_pos}
              /\ t_pos' = t_pos + 1
              /\ t_pc' = "loop"
              /\ UNCHANGED t_content
  /\ UNCHANGED <<hvars, t_user, t_face, t_items, t_vk, t_ret>>

\* lines 122-137: decode, detect, embed and compare the downloaded photo
T_Compare ==
  /\ t_pc = "compare"
  /\ LET r == ComparePhoto(t_vk, t_user, t_face, t_items[t_pos], t_content[1])
     IN /\ t_vk' = r.vk
        /\ t_log' = IF r.raised THEN t_log \cup {t_pos} ELSE t_log
  /\ t_content' = None
  /\ t_pos' = t_pos + 1
  /\ t_pc' = "loop"
  /\ UNCHANGED <<hvars, t_user, t_face, t_items, t_ret>>

TNext == T_Listing \/ T_Item \/ T_Fetch \/ T_Compare

TaskSpec == TInit /\ [][TNext]_vars

\* the handler, and beside it one fan-out coroutine followed step by step
PipelineSpec == (Init \/ TInit) /\ [][Next \/ TNext]_vars

(* ============================ properties ================================ *)
Done == pc = "done"
FannedOut == tasks # << >>
IsErrorEntry(e) == "error" \in DOMAIN e
Range(f) == {f[i] : i \in DOMAIN f}
Occurrences(seq, e) == Cardinality({i \in DOMAIN seq : seq[i] = e})
SearchIssued == \E i \in DOMAIN calls : calls[i].method = "users.search"
NoListing == \A u \in UserIds : listingCalls[u] = 0
TasksOf(uid) == {t \in DOMAIN tasks : tasks[t].user.user_id = uid}

\* the photo decodes and one of its detected faces lies at a distance
\* strictly below 0.6 of the face
PhotoMatchesFace(p, face) ==
  /\ PhotoDB[p].kind = "image"
  /\ \E i \in DOMAIN PhotoDB[p].faces :
       Dist2(face, PhotoDB[p].faces[i]) < ThresholdTenths * ThresholdTenths

\* a task that got its listing and returned its list of matches
FetchedBy(t) == results[t].type = "list"

\* the entry is a match found by a task in a photo it fetched
IsFoundMatch(e) ==
  \E t \in DOMAIN tasks :
    /\ FetchedBy(t)
    /\ tasks[t].user.user_id = e.profile_url
    /\ tasks[t].face \in Range(face_encodings)
    /\ \E p \in Range(UserAlbum(e.profile_url)) :
         /\ p = e.photo_url
         /\ PhotoMatchesFace(p, tasks[t].face)

\* C1 as stated: every entry of the rendered result list is a profile with a
\* fetched photo holding a face closer than 0.6 to an uploaded face
C1_AllEntriesAreMatches ==
  \A i \in DOMAIN page.vk_results :
    /\ ~IsErrorEntry(page.vk_results[i])
    /\ IsFoundMatch(page.vk_results[i])

\* C1 amended: every entry of the rendered result list is either the error
\* entry returned by a task whose photo listing failed, or a match found in a
\* fetched photo with a face closer than 0.6 to the task's uploaded face
C1_EntriesAreMatchesOrErrors ==
  \A i \in DOMAIN page.vk_results :
    LET e == page.vk_results[i] IN
    IF IsErrorEntry(e)
      THEN \E t \in DOMAIN tasks : results[t] = DictResult(e)
      ELSE IsFoundMatch(e)

C1_Witness ==
  /\ Done
  /\ \E i \in DOMAIN page.vk_results : IsErrorEntry(page.vk_results[i])
  /\ \E i \in DOMAIN page.vk_results : ~IsErrorEntry(page.vk_results[i])

\* C2 as stated: one task per candidate user, so each user's photo listing
\* is requested exactly once per request
C2_OneTaskPerUser ==
  (Done /\ FannedOut) =>
    /\ Len(tasks) = Len(user_results)
    /\ \A i \in DOMAIN user_results :
         listingCalls[user_results[i].user_id] = 1

\* C2 amended: one task per (candidate user, uploaded face) pair, U * F
\* tasks, so each user's photo listing is requested once per uploaded face
C2_OneTaskPerUserAndFace ==
  /\ FannedOut =>
       /\ Len(tasks) = Len(user_results) * Len(face_encodings)
       /\ \A i \in DOMAIN user_results : \A j \in DOMAIN face_encodings :
            Cardinality({t \in DOMAIN tasks :
                           /\ tasks[t].user = user_results[i]
                           /\ tasks[t].face = face_encodings[j]}) = 1
  /\ (Done /\ FannedOut) =>
       \A u \in UserIds :
         listingCalls[u] =
           IF \E i \in DOMAIN user_results : user_results[i].user_id = u
             THEN Len(face_encodings) ELSE 0

C2_Witness ==
  /\ Done
  /\ Len(user_results) = 2
  /\ Len(face_encodings) = 2
  /\ \A u \in UserIds : listingCalls[u] = 2

\* C3: a photo that raises while it is downloaded, decoded or embedded does
\* not stop its task, the matches before and after it are returned; a task
\* that raises does not keep the other tasks' results off the page
C3_FailuresDoNotStopProcessing ==
  /\ \A t \in DOMAIN tasks :
       FetchedBy(t) =>
         \A p \in Range(UserAlbum(tasks[t].user.user_id)) :
           PhotoMatchesFace(p, tasks[t].face) =>
             MatchEntry(tasks[t].user, p) \in Range(results[t].val)
  /\ (Done /\ FannedOut) =>
       \A t \in DOMAIN tasks :
         results[t].type \in {"list", "dict"} =>
           \A e \in Range(results[t].val) : e \in Range(page.vk_results)

C3_Witness ==
  /\ Done
  /\ \E t \in DOMAIN tasks : results[t].type = "exception"
  /\ \E t \in DOMAIN tasks :
       /\ FetchedBy(t)
       /\ \E k \in DOMAIN UserAlbum(tasks[t].user.user_id) :
            LET a == UserAlbum(tasks[t].user.user_id) IN
            /\ PhotoDB[a[k]].kind = "corrupt"
            /\ \E b \in 1..(k - 1) :
                 MatchEntry(tasks[t].user, a[b]) \in Range(page.vk_results)
            /\ \E c \in (k + 1)..Len(a) :
                 MatchEntry(tasks[t].user, a[c]) \in Range(page.vk_results)

\* C4: the stages run in the order upload, detect, search, fetch, compare,
\* render: no remote call before a face is detected, no photo listing before
\* the search returned users, no page of the fan-out before every task has
\* finished, no later remote stage after a stage failed or found nothing,
\* and inside a task a photo is compared only once it has been downloaded
C4_StagesInOrder ==
  /\ calls # << >> => Len(face_encodings) >= 1
  /\ ~NoListing => (SearchIssued /\ user_results # << >>)
  /\ \A t \in DOMAIN tasks :
       results[t] # Pending => listingCalls[tasks[t].user.user_id] >= 1
  /\ (Done /\ FannedOut) => \A t \in DOMAIN tasks : results[t] # Pending
  /\ page.error \in {"no file part", "no file selected", "save failed",
                     "image error", "no faces"} => (calls = << >> /\ NoListing)
  /\ page.error \in {"no users", "search error"} => NoListing
  /\ Done => (\A i \in DOMAIN calls : i < Len(calls) =>
                calls[i].method = "database.getCities")
  /\ t_pc \in {"fetch", "compare"} => t_pos \in DOMAIN t_items
  /\ t_pc = "compare" => t_content = << PhotoDB[t_items[t_pos]] >>
  /\ \A e \in Range(t_vk) :
       \E i \in 1..(t_pos - 1) :
         e = MatchEntry(t_user, t_items[i]) /\ i \notin t_log

C4_Witness ==
  /\ Done
  /\ Len(tasks) = 4
  /\ Len(calls) = 2
  /\ page.error = "none"

\* the result the fan-out task of the i-th user and j-th face adds to the page
ContributionOf(i, j) ==
  LET t == CHOOSE k \in DOMAIN tasks :
             /\ tasks[k].user = user_results[i]
             /\ tasks[k].face = face_encodings[j]
  IN IF results[t].type \in {"list", "dict"} THEN results[t].val ELSE << >>

RECURSIVE FacesInner(_, _)
FacesInner(i, j) ==
  IF j > Len(face_encodings) THEN << >>
  ELSE ContributionOf(i, j) \o FacesInner(i, j + 1)

RECURSIVE UsersOuter(_)
UsersOuter(i) ==
  IF i > Len(user_results) THEN << >>
  ELSE FacesInner(i, 1) \o UsersOuter(i + 1)

\* C5: the aggregated list is written only after all tasks have finished and
\* is the tasks' results concatenated users outer, uploaded faces inner,
\* whatever the order in which the tasks finished
C5_AggregationIsDeterministic ==
  /\ ~Done => vk_results = << >>
  /\ (Done /\ FannedOut) =>
       /\ \A t \in DOMAIN tasks : results[t] # Pending
       /\ vk_results = UsersOuter(1)
       /\ page.vk_results = vk_results

C5_Witness ==
  /\ Done
  /\ Len(user_results) = 2
  /\ Len(face_encodings) = 2
  /\ \E t \in DOMAIN tasks : results[t].type = "dict"
  /\ Len(vk_results) >= 5

\* the page carries no error message only when it carries results
C6_PageSafe ==
  /\ renders <= 1
  /\ pc \in {"idle", "detect", "search", "users_search", "gather", "done"}
  /\ Done =>
       /\ renders = 1
       /\ page.error # "unrendered"
       /\ page.error = "none" <=> page.vk_results # << >>
       /\ face_encodings = << >> =>
            page.error \in {"no file part", "no file selected", "save failed",
                            "image error", "no faces"}
       /\ (face_encodings # << >> /\ user_results = << >>) =>
            page.error \in {"no users", "search error"}
       /\ (FannedOut /\ vk_results = << >>) => page.error = "no matches"

\* C6: every POST request ends with exactly one rendered page, no exception
\* leaves the handler, and every failure outcome shows an error message,
\* when every remote call returns or fails
C6_EveryRequestRendersOnce == [](C6_PageSafe) /\ (pc # "idle" ~> Done)

C6_Witness ==
  /\ Done
  /\ renders = 1
  /\ page.error = "search error"

\* C7: no city lookup without a city name; with one, exactly one lookup
\* precedes the user search; a lookup that fails, raises or finds nothing is
\* followed by the user search with an empty city filter, not by an error
C7_CityNeverBlocks ==
  /\ city = "" =>
       \A i \in DOMAIN calls : calls[i].method # "database.getCities"
  /\ SearchIssued =>
       IF city = ""
         THEN Len(calls) = 1 /\ calls[1].city = << >>
         ELSE /\ Len(calls) = 2
              /\ calls[1].method = "database.getCities"
              /\ calls[1].q = city
              /\ calls[2].method = "users.search"
              /\ ~calls[1].found => calls[2].city = << >>
  /\ (Done /\ face_encodings # << >>) => SearchIssued
  /\ (calls # << >> /\ ~SearchIssued) => pc = "users_search"

C7_Witness ==
  /\ Len(calls) = 2
  /\ ~calls[1].found
  /\ calls[2].city = << >>
  /\ user_results # << >>

\* the entries the listing must yield: one per listed photo, in order, that
\* was processed without a logged exception and matches the face
RECURSIVE ExpectedEntries(_)
ExpectedEntries(i) ==
  IF i > Len(t_items) THEN << >>
  ELSE (IF i \notin t_log /\ PhotoMatchesFace(t_items[i], t_face)
          THEN << MatchEntry(t_user, t_items[i]) >> ELSE << >>)
       \o ExpectedEntries(i + 1)

\* C8: the list a task returns for a listing holds, in listing order, exactly
\* one entry per listed photo processed without exception with a face at a
\* distance strictly below 0.6, and nothing else
C8_ReturnedListIsTheMatches ==
  (t_pc = "returned" /\ t_ret.type = "list") => t_ret.val = ExpectedEntries(1)

C8_Witness ==
  /\ t_pc = "returned"
  /\ t_ret.type = "list"
  /\ t_items = <<4, 2, 1>>
  /\ t_face = FaceAt(1)
  /\ t_log = {3}
  /\ Len(t_ret.val) = 1

\* no task put anything on the page
AllTasksEmptyOrRaised ==
  \A t \in DOMAIN tasks :
    results[t] = ListResult(<< >>) \/ results[t].type = "exception"

\* C9: the 'no matches' page is rendered exactly when every task returned an
\* empty list or raised; an error entry returned by a task puts the results
\* page on screen with that entry, even without any match
C9_NoMatchPage ==
  /\ page.error = "no matches" => FannedOut
  /\ (Done /\ FannedOut) =>
       /\ page.error = "no matches" <=> AllTasksEmptyOrRaised
       /\ \A t \in DOMAIN tasks :
            results[t].type = "dict" =>
              /\ page.error = "none"
              /\ results[t].val[1] \in Range(page.vk_results)

C9_Witness ==
  /\ Done
  /\ page.error = "none"
  /\ \A i \in DOMAIN page.vk_results : IsErrorEntry(page.vk_results[i])
  /\ \E t \in DOMAIN tasks : results[t] = ListResult(<< >>)

AllListingsFailed(uid) ==
  TasksOf(uid) # {} /\ \A t \in TasksOf(uid) : results[t].type = "dict"

EntriesOf(uid) ==
  {i \in DOMAIN page.vk_results : page.vk_results[i].profile_url = uid}

MatchCountBounded ==
  \A i \in DOMAIN page.vk_results :
    ~IsErrorEntry(page.vk_results[i]) =>
      /\ Occurrences(page.vk_results, page.vk_results[i]) <= Len(face_encodings)
      /\ \A t \in DOMAIN tasks :
           FetchedBy(t) =>
             Occurrences(results[t].val, page.vk_results[i]) <= 1

\* C10 as stated: a match entry appears at most F times, and a user whose
\* listing fails or is closed for every task adds F identical error entries
C10_IdenticalErrorEntries ==
  (Done /\ FannedOut) =>
    /\ MatchCountBounded
    /\ \A uid \in UserIds :
         AllListingsFailed(uid) =>
           /\ Cardinality(EntriesOf(uid)) = Len(face_encodings)
           /\ \A i, j \in EntriesOf(uid) :
                page.vk_results[i] = page.vk_results[j]

\* C10 amended: a match entry appears at most F times, never twice from one
\* task, and a user whose listing fails or is closed for every task adds
\* exactly F error entries, one per task, equal in profile, name and photo
\* and each carrying the error text of its own task's failure
C10_ErrorEntryPerTask ==
  (Done /\ FannedOut) =>
    /\ MatchCountBounded
    /\ \A uid \in UserIds :
         AllListingsFailed(uid) =>
           /\ Cardinality(EntriesOf(uid)) = Len(face_encodings)
           /\ \A i, j \in EntriesOf(uid) :
                /\ IsErrorEntry(page.vk_results[i])
                /\ page.vk_results[i].profile_url = page.vk_results[j].profile_url
                /\ page.vk_results[i].name = page.vk_results[j].name
                /\ page.vk_results[i].photo_url = page.vk_results[j].photo_url
           /\ \A t \in TasksOf(uid) :
                Occurrences(page.vk_results, results[t].val[1]) =
                  Cardinality({k \in TasksOf(uid) : results[k] = results[t]})

C10_Witness ==
  /\ Done
  /\ Len(face_encodings) = 2
  /\ \E uid \in UserIds :
       /\ AllListingsFailed(uid)
       /\ \A i, j \in EntriesOf(uid) : page.vk_results[i] = page.vk_results[j]
  /\ \E i \in DOMAIN page.vk_results :
       /\ ~IsErrorEntry(page.vk_results[i])
       /\ Occurrences(page.vk_results, page.vk_results[i]) = 2

====
